---- MODULE Spec2Model ----
(***************************************************************************)
(* Bounded model checking of the coffee-can game (coffee.py).              *)
(*                                                                         *)
(* The program builds one propositional formula Gries(x,y,n) over boolean  *)
(* variables named '_<colour>_<val>_<step>' and asks a SAT solver whether  *)
(* it is satisfiable.  The model keeps the formula as the expression tree  *)
(* the program builds (Bool / And / Or / Not / Implies nodes), runs the    *)
(* reachability sweep of allTransitions one loop iteration at a time, and  *)
(* decides satisfiability exactly, layer by layer over the step index.     *)
(***************************************************************************)
EXTENDS Integers, Sequences, FiniteSets, TLC

VARIABLES
    pc,                     \* position of the program
    x0, y0, n0,             \* arguments of Gries(x,y,n)
    f_init,                 \* init(x,y), once built (else <<>>)
    f_final,                \* final(0,1,n), once built (else <<>>)
    transitions_optimised,  \* allTransitions: list of implications built so far
    next_transitions,       \* allTransitions: configurations to expand at step n
    next_transitions_new,   \* allTransitions: list assigned inside the for loop
    n,                      \* allTransitions: step counter
    j,                      \* allTransitions: position of the for loop
    expanded,               \* history: the (x,y,n) of every nextStep call, in order
    unique_i,               \* uniqueVals: number of uniqueVal(x0,y0,i) built so far
    live,                   \* solver: live[i+1] = partial assignments of layer i
    assertions,             \* solver: the conjuncts of the added formula, by layer
    verdict,                \* solver: "none", "sat" or "unsat"
    model                   \* solver: the layers of the model read back so far

vars == <<pc, x0, y0, n0, f_init, f_final, transitions_optimised,
          next_transitions, next_transitions_new, n, j, expanded, unique_i,
          assertions, live, verdict, model>>

----------------------------------------------------------------------------
(* Bounds of the model and constants of the program.                       *)

MaxX == 1
MaxY == 4
MaxN == 3

MainX == 10
MainY == 10

----------------------------------------------------------------------------
(* Variable names: '_' + colour + '_' + str(val) + '_' + str(step).         *)

DigitChars == <<"0", "1", "2", "3", "4", "5", "6", "7", "8", "9">>

(* str() of an integer: its decimal digits, '-' first when negative        *)
RECURSIVE strNat(_)
strNat(k) ==
    IF k < 10 THEN DigitChars[k + 1]
    ELSE strNat(k \div 10) \o DigitChars[(k % 10) + 1]

str(k) == IF k < 0 THEN "-" \o strNat(0 - k) ELSE strNat(k)

Bool(name) == [op |-> "Bool", args |-> name]

(* bean that leaves out the '_' between val and step *)
beanNoSeparator(colour, val, step) == Bool("_" \o colour \o "_" \o str(val) \o str(step))

bean(colour, val, step) == Bool("_" \o colour \o "_" \o str(val) \o "_" \o str(step))

(* Reading a name back: the step is the number after the last '_', the     *)
(* value the number before it, the colour what lies between the first two. *)
CharAt(s, k) == SubSeq(s, k, k)

RECURSIVE LastUnderscore(_, _)
LastUnderscore(s, k) ==
    IF k = 0 THEN 0
    ELSE IF CharAt(s, k) = "_" THEN k ELSE LastUnderscore(s, k - 1)

DigitVal(ch) == CHOOSE d \in 0..9 : DigitChars[d + 1] = ch

RECURSIVE parseNat(_, _, _)
parseNat(s, from, to) ==
    IF from > to THEN 0
    ELSE 10 * parseNat(s, from, to - 1) + DigitVal(CharAt(s, to))

parseInt(s, from, to) ==
    IF from <= to /\ CharAt(s, from) = "-" THEN 0 - parseNat(s, from + 1, to)
    ELSE parseNat(s, from, to)

stepOf(name) == parseInt(name, LastUnderscore(name, Len(name)) + 1, Len(name))

valOf(name) ==
    LET last == LastUnderscore(name, Len(name))
        prev == LastUnderscore(name, last - 1)
    IN parseInt(name, prev + 1, last - 1)

colourOf(name) ==
    LET last == LastUnderscore(name, Len(name))
        prev == LastUnderscore(name, last - 1)
    IN SubSeq(name, 2, prev - 1)

----------------------------------------------------------------------------
(* Formula constructors (z3): every node is [op, args].                    *)

And(fs) == [op |-> "And", args |-> fs]
Or(fs) == [op |-> "Or", args |-> fs]
Not(f) == [op |-> "Not", args |-> <<f>>]
Implies(f, g) == [op |-> "Implies", args |-> <<f, g>>]

(* Truth of a formula under an assignment m: the set of names that are true *)
RECURSIVE Eval(_, _)
Eval(f, m) ==
    CASE f.op = "Bool" -> f.args \in m
      [] f.op = "And" -> \A k \in 1..Len(f.args) : Eval(f.args[k], m)
      [] f.op = "Or" -> \E k \in 1..Len(f.args) : Eval(f.args[k], m)
      [] f.op = "Not" -> ~Eval(f.args[1], m)
      [] f.op = "Implies" -> Eval(f.args[1], m) => Eval(f.args[2], m)

RECURSIVE VarsOf(_)
VarsOf(f) ==
    IF f.op = "Bool" THEN {f.args}
    ELSE UNION {VarsOf(f.args[k]) : k \in 1..Len(f.args)}

(* The conjuncts of a formula, in order: nested And nodes flattened.       *)
RECURSIVE Conjuncts(_)
RECURSIVE ConjunctsOfList(_, _, _)
Conjuncts(f) ==
    IF f.op = "And" THEN ConjunctsOfList(f.args, 1, Len(f.args)) ELSE <<f>>
ConjunctsOfList(fs, lo, hi) ==
    IF lo > hi THEN <<>>
    ELSE IF lo = hi THEN Conjuncts(fs[lo])
    ELSE LET mid == (lo + hi) \div 2
         IN ConjunctsOfList(fs, lo, mid) \o ConjunctsOfList(fs, mid + 1, hi)

----------------------------------------------------------------------------
(* The builders of coffee.py.                                              *)

(* init that fixes the counts of step 1 instead of step 0 *)
initAtStepOne(x, y) == And(<<bean("black", x, 1), bean("white", y, 1)>>)

init(x, y) == And(<<bean("black", x, 0), bean("white", y, 0)>>)

(* final with its two counts swapped *)
finalSwapped(x, y, step) == And(<<bean("black", y, step), bean("white", x, step)>>)

final(x, y, step) == And(<<bean("black", x, step), bean("white", y, step)>>)

(* The pairs (a, b) with 0 <= a < b <= top, in the order the double        *)
(* comprehension "for a in range .. for b in range .. if b > a" yields them *)
RECURSIVE PairsAbove(_, _)
PairsAbove(a, top) ==
    IF a > top THEN <<>>
    ELSE [k \in 1..(top - a) |-> <<a, a + k>>] \o PairsAbove(a + 1, top)

uniqueVal(x, y, step) ==
    LET ps == PairsAbove(0, x + y)
        List1 == [k \in 1..Len(ps) |->
                    Implies(bean("black", ps[k][1], step),
                            Not(bean("black", ps[k][2], step)))]
        List2 == [k \in 1..Len(ps) |->
                    Implies(bean("white", ps[k][1], step),
                            Not(bean("white", ps[k][2], step)))]
    IN And(List1 \o List2)

uniqueVals(x, y, nn) == And([i \in 1..(nn + 1) |-> uniqueVal(x, y, i - 1)])

(* nextStep whose second rule removes a white bean too *)
nextStepRule2TakesWhite(x, y, step) ==
    LET black0 == bean("black", x, step)
        white0 == bean("white", y, step)
        rule1 == y >= 2
        rule2 == x >= 2 \/ (x >= 1 /\ y >= 1)
        rule3 == (x = 1 /\ y = 0) \/ (x = 0 /\ y = 1)
        NextPoints ==
            (IF rule1 THEN <<<<x + 1, y - 2>>>> ELSE <<>>)
            \o (IF rule2 THEN <<<<x - 1, y - 1>>>> ELSE <<>>)
        NextConfs ==
            (IF rule1
             THEN <<And(<<bean("black", x + 1, step + 1), bean("white", y - 2, step + 1)>>)>>
             ELSE <<>>)
            \o (IF rule2
                THEN <<And(<<bean("black", x - 1, step + 1), bean("white", y - 1, step + 1)>>)>>
                ELSE <<>>)
            \o (IF rule3 THEN <<And(<<black0, white0>>)>> ELSE <<>>)
    IN [formula |-> Implies(And(<<black0, white0>>), Or(NextConfs)),
        points |-> NextPoints]

(* nextStep whose first rule removes one white bean instead of two *)
nextStepRule1KeepsTotal(x, y, step) ==
    LET black0 == bean("black", x, step)
        white0 == bean("white", y, step)
        rule1 == y >= 2
        rule2 == x >= 2 \/ (x >= 1 /\ y >= 1)
        rule3 == (x = 1 /\ y = 0) \/ (x = 0 /\ y = 1)
        NextPoints ==
            (IF rule1 THEN <<<<x + 1, y - 1>>>> ELSE <<>>)
            \o (IF rule2 THEN <<<<x - 1, y>>>> ELSE <<>>)
        NextConfs ==
            (IF rule1
             THEN <<And(<<bean("black", x + 1, step + 1), bean("white", y - 1, step + 1)>>)>>
             ELSE <<>>)
            \o (IF rule2
                THEN <<And(<<bean("black", x - 1, step + 1), bean("white", y, step + 1)>>)>>
                ELSE <<>>)
            \o (IF rule3 THEN <<And(<<black0, white0>>)>> ELSE <<>>)
    IN [formula |-> Implies(And(<<black0, white0>>), Or(NextConfs)),
        points |-> NextPoints]

(* nextStep whose second rule fires for every x >= 1 *)
nextStepRule2FromOneBlack(x, y, step) ==
    LET black0 == bean("black", x, step)
        white0 == bean("white", y, step)
        rule1 == y >= 2
        rule2 == x >= 1
        rule3 == (x = 1 /\ y = 0) \/ (x = 0 /\ y = 1)
        NextPoints ==
            (IF rule1 THEN <<<<x + 1, y - 2>>>> ELSE <<>>)
            \o (IF rule2 THEN <<<<x - 1, y>>>> ELSE <<>>)
        NextConfs ==
            (IF rule1
             THEN <<And(<<bean("black", x + 1, step + 1), bean("white", y - 2, step + 1)>>)>>
             ELSE <<>>)
            \o (IF rule2
                THEN <<And(<<bean("black", x - 1, step + 1), bean("white", y, step + 1)>>)>>
                ELSE <<>>)
            \o (IF rule3 THEN <<And(<<black0, white0>>)>> ELSE <<>>)
    IN [formula |-> Implies(And(<<black0, white0>>), Or(NextConfs)),
        points |-> NextPoints]

nextStep(x, y, step) ==
    LET black0 == bean("black", x, step)
        white0 == bean("white", y, step)
        rule1 == y >= 2
        rule2 == x >= 2 \/ (x >= 1 /\ y >= 1)
        rule3 == (x = 1 /\ y = 0) \/ (x = 0 /\ y = 1)
        NextPoints ==
            (IF rule1 THEN <<<<x + 1, y - 2>>>> ELSE <<>>)
            \o (IF rule2 THEN <<<<x - 1, y>>>> ELSE <<>>)
        NextConfs ==
            (IF rule1
             THEN <<And(<<bean("black", x + 1, step + 1), bean("white", y - 2, step + 1)>>)>>
             ELSE <<>>)
            \o (IF rule2
                THEN <<And(<<bean("black", x - 1, step + 1), bean("white", y, step + 1)>>)>>
                ELSE <<>>)
            \o (IF rule3 THEN <<And(<<black0, white0>>)>> ELSE <<>>)
    IN [formula |-> Implies(And(<<black0, white0>>), Or(NextConfs)),
        points |-> NextPoints]

(* the range check with its lower end left out *)
InRangeAboveLow(v, lo, hi) == lo < v /\ v < hi

InRange(v, lo, hi) == lo <= v /\ v < hi

----------------------------------------------------------------------------
(* The SAT solver (z3), to the extent the program uses it: add one formula, *)
(* check(), model().  Every conjunct of Gries(x,y,n) mentions variables of  *)
(* one step or of two consecutive steps, so satisfiability is decided layer *)
(* by layer: live[i+1] holds the assignments of the variables of step i     *)
(* that extend to an assignment of steps 0..i satisfying every conjunct     *)
(* over those steps.                                                        *)

Range(s) == {s[k] : k \in 1..Len(s)}

SetMax(S) == CHOOSE a \in S : \A b \in S : b <= a
SetMin(S) == CHOOSE a \in S : \A b \in S : a <= b

StepsOf(c) == {stepOf(v) : v \in VarsOf(c)}

AllVars(cs) == UNION {VarsOf(cs[k]) : k \in 1..Len(cs)}

(* The conjuncts with the first and the last step each one mentions.        *)
Index(cs) ==
    [k \in 1..Len(cs) |->
        LET st == StepsOf(cs[k])
        IN [f |-> cs[k],
            lo |-> IF st = {} THEN 0 ELSE SetMin(st),
            hi |-> IF st = {} THEN 0 ELSE SetMax(st)]]

LastLayer(ix) == SetMax({ix[k].hi : k \in 1..Len(ix)} \cup {0})

Formulas(sel) == [k \in 1..Len(sel) |-> sel[k].f]

LocalTo(ix, i) ==
    LET Test(e) == e.lo = i /\ e.hi = i IN Formulas(SelectSeq(ix, Test))

SpanOf(ix, i) ==
    LET Test(e) == e.lo = i /\ e.hi = i + 1 IN Formulas(SelectSeq(ix, Test))

(* s.add(f): the conjuncts of f by layer.  local[i+1] are the conjuncts     *)
(* over step i alone, span[i+1] those over steps i and i+1; layered says    *)
(* that every conjunct is one or the other.                                 *)
Assertions(f) ==
    LET ix == Index(Conjuncts(f))
        last == LastLayer(ix)
    IN [local |-> [i \in 1..(last + 1) |-> LocalTo(ix, i - 1)],
        span |-> [i \in 1..last |-> SpanOf(ix, i - 1)],
        layered |-> \A k \in 1..Len(ix) : ix[k].lo >= 0 /\ ix[k].hi - ix[k].lo <= 1]

VarsAt(as, i) ==
    AllVars(as.local[i + 1])
    \cup {v \in (IF i >= 1 THEN AllVars(as.span[i]) ELSE {})
                \cup (IF i + 1 <= Len(as.span) THEN AllVars(as.span[i + 1]) ELSE {}) :
            stepOf(v) = i}

(* a conjunct of the form p => ~q excludes the pair {p, q}                  *)
IsExclusion(c) ==
    /\ c.op = "Implies"
    /\ c.args[1].op = "Bool"
    /\ c.args[2].op = "Not"
    /\ c.args[2].args[1].op = "Bool"

Excluded(cs) ==
    {{cs[k].args[1].args, cs[k].args[2].args[1].args} :
        k \in {k \in 1..Len(cs) : IsExclusion(cs[k])}}

(* All subsets of vs that contain no excluded pair.                         *)
RECURSIVE Grow(_, _, _)
Grow(vs, excl, acc) ==
    IF vs = {} THEN acc
    ELSE LET v == CHOOSE w \in vs : TRUE
             ok == {S \in acc : {v} \notin excl /\ \A s \in S : {s, v} \notin excl}
         IN Grow(vs \ {v}, excl, acc \cup {S \cup {v} : S \in ok})

(* The assignments of layer i that satisfy every conjunct local to it.      *)
Candidates(as, i) ==
    LET loc == as.local[i + 1]
        NotExcl(c) == ~IsExclusion(c)
        rest == SelectSeq(loc, NotExcl)
    IN {S \in Grow(VarsAt(as, i), Excluded(loc), {{}}) :
            \A k \in 1..Len(rest) : Eval(rest[k], S)}

(* The candidates of layer i+1 that some assignment in prev (layer i)       *)
(* extends to, under the conjuncts spanning layers i and i+1.  A conjunct   *)
(* reads only its own variables, so assignments are compared on those.      *)
Image(as, prev, i) ==
    LET span == as.span[i + 1]
        sv == AllVars(span)
        here == {v \in sv : stepOf(v) = i}
        pa == {a \cap sv : a \in prev}
        cand == Candidates(as, i + 1)
        qb == {b \cap sv : b \in cand}
        \* an implication whose antecedent is over layer i and false under p
        Idle(c, p) ==
            /\ c.op = "Implies"
            /\ VarsOf(c.args[1]) \subseteq here
            /\ ~Eval(c.args[1], p)
        Extends(p) ==
            LET act == {k \in 1..Len(span) : ~Idle(span[k], p)}
            IN {q \in qb : \A k \in act : Eval(span[k], p \cup q)}
        okb == UNION {Extends(p) : p \in pa}
    IN {b \in cand : (b \cap sv) \in okb}

RECURSIVE LiveAt(_, _)
LiveAt(as, i) ==
    IF i = 0 THEN Candidates(as, 0)
    ELSE Image(as, LiveAt(as, i - 1), i - 1)

(* check() of a formula: is there a satisfying assignment                   *)
Satisfiable(f) ==
    LET as == Assertions(f)
    IN as.layered /\ LiveAt(as, Len(as.local) - 1) # {}

----------------------------------------------------------------------------
(* Gries(x,y,n): the asserts, then init and final.                          *)

(* Gries without the assert on n *)
GriesWithoutStepCheck ==
    /\ pc = "Gries"
    /\ x0 + y0 >= 1
    /\ f_init' = init(x0, y0)
    /\ f_final' = final(0, 1, n0)
    /\ next_transitions' = <<<<x0, y0>>>>
    /\ n' = 0
    /\ pc' = "while"
    /\ UNCHANGED <<x0, y0, n0, transitions_optimised, next_transitions_new, j,
                   expanded, unique_i, assertions, live, verdict, model>>

Gries ==
    /\ pc = "Gries"
    /\ x0 + y0 >= 1
    /\ n0 >= 0
    /\ f_init' = init(x0, y0)
    /\ f_final' = final(0, 1, n0)
    /\ next_transitions' = <<<<x0, y0>>>>
    /\ n' = 0
    /\ pc' = "while"
    /\ UNCHANGED <<x0, y0, n0, transitions_optimised, next_transitions_new, j,
                   expanded, unique_i, assertions, live, verdict, model>>

GriesFails ==
    /\ pc = "Gries"
    /\ ~(x0 + y0 >= 1 /\ n0 >= 0)
    /\ pc' = "error"
    /\ UNCHANGED <<x0, y0, n0, f_init, f_final, transitions_optimised,
                   next_transitions, next_transitions_new, n, j, expanded,
                   unique_i, assertions, live, verdict, model>>

(* allTransitions: the while loop, its for loop, and the return.            *)

(* the loop entered whenever the frontier is not empty *)
WhileEnterIgnoresBound ==
    /\ pc = "while"
    /\ next_transitions # <<>>
    /\ next_transitions_new' = <<>>
    /\ j' = 1
    /\ pc' = "for"
    /\ UNCHANGED <<x0, y0, n0, f_init, f_final, transitions_optimised,
                   next_transitions, n, expanded, unique_i, assertions, live, verdict, model>>

WhileEnter ==
    /\ pc = "while"
    /\ next_transitions # <<>> /\ n < n0 + 1
    /\ next_transitions_new' = <<>>
    /\ j' = 1
    /\ pc' = "for"
    /\ UNCHANGED <<x0, y0, n0, f_init, f_final, transitions_optimised,
                   next_transitions, n, expanded, unique_i, assertions, live, verdict, model>>

ForBody ==
    /\ pc = "for"
    /\ j <= Len(next_transitions)
    /\ LET x == next_transitions[j][1]
           y == next_transitions[j][2]
           r == nextStep(x, y, n)
       IN IF InRange(x, 0, x0 + y0 + 1) /\ InRange(y, 0, x0 + y0 + 1)
          THEN /\ next_transitions_new' = r.points
               /\ transitions_optimised' = Append(transitions_optimised, r.formula)
               /\ expanded' = Append(expanded, <<x, y, n>>)
          ELSE UNCHANGED <<next_transitions_new, transitions_optimised, expanded>>
    /\ j' = j + 1
    /\ UNCHANGED <<pc, x0, y0, n0, f_init, f_final, next_transitions, n, unique_i,
                   assertions, live, verdict, model>>

(* the end of the for loop adding the new list to the old frontier *)
ForEndExtendsFrontier ==
    /\ pc = "for"
    /\ j > Len(next_transitions)
    /\ next_transitions' = next_transitions \o next_transitions_new
    /\ n' = n + 1
    /\ pc' = "while"
    /\ UNCHANGED <<x0, y0, n0, f_init, f_final, transitions_optimised,
                   next_transitions_new, j, expanded, unique_i, assertions, live, verdict, model>>

ForEnd ==
    /\ pc = "for"
    /\ j > Len(next_transitions)
    /\ next_transitions' = next_transitions_new
    /\ n' = n + 1
    /\ pc' = "while"
    /\ UNCHANGED <<x0, y0, n0, f_init, f_final, transitions_optimised,
                   next_transitions_new, j, expanded, unique_i, assertions, live, verdict, model>>

WhileExit ==
    /\ pc = "while"
    /\ ~(next_transitions # <<>> /\ n < n0 + 1)
    /\ pc' = "uniqueVals"
    /\ UNCHANGED <<x0, y0, n0, f_init, f_final, transitions_optimised,
                   next_transitions, next_transitions_new, n, j, expanded, unique_i,
                   assertions, live, verdict, model>>

(* uniqueVals: uniqueVal(x0,y0,i) for i in range(0, n0+1), one at a time;   *)
(* then Gries returns and main hands the formula to the solver.             *)

UniqueValsStep ==
    /\ pc = "uniqueVals"
    /\ unique_i < n0 + 1
    /\ unique_i' = unique_i + 1
    /\ UNCHANGED <<pc, x0, y0, n0, f_init, f_final, transitions_optimised,
                   next_transitions, next_transitions_new, n, j, expanded,
                   assertions, live, verdict, model>>

(* the formula Gries returns                                                *)
GriesFormula ==
    And(<<f_init, f_final, And(transitions_optimised), uniqueVals(x0, y0, n0)>>)

GriesReturn ==
    /\ pc = "uniqueVals"
    /\ unique_i >= n0 + 1
    /\ assertions' = Assertions(GriesFormula)
    /\ pc' = "check"
    /\ UNCHANGED <<x0, y0, n0, f_init, f_final, transitions_optimised,
                   next_transitions, next_transitions_new, n, j, expanded, unique_i,
                   live, verdict, model>>

(* s.check(): one layer at a time, then the verdict.                        *)

SolveStep ==
    /\ pc = "check"
    /\ Len(live) < Len(assertions.local)
    /\ live' = IF live = <<>> THEN <<Candidates(assertions, 0)>>
               ELSE Append(live, Image(assertions, live[Len(live)], Len(live) - 1))
    /\ UNCHANGED <<pc, x0, y0, n0, f_init, f_final, transitions_optimised,
                   next_transitions, next_transitions_new, n, j, expanded, unique_i,
                   assertions, verdict, model>>

SolveVerdict ==
    /\ pc = "check"
    /\ Len(live) = Len(assertions.local)
    /\ verdict' = IF ~assertions.layered THEN "unknown"
                  ELSE IF live[Len(live)] # {} THEN "sat" ELSE "unsat"
    /\ pc' = IF verdict' = "sat" THEN "model" ELSE "done"
    /\ UNCHANGED <<x0, y0, n0, f_init, f_final, transitions_optimised,
                   next_transitions, next_transitions_new, n, j, expanded, unique_i,
                   assertions, live, model>>

(* s.model(): any satisfying assignment, read back from the last layer to   *)
(* the first.                                                               *)
ReadModel ==
    /\ pc = "model"
    /\ LET i == Len(live) - 1 - Len(model)
       IN \E a \in live[i + 1] :
            /\ IF model = <<>> THEN TRUE
               ELSE \A k \in 1..Len(assertions.span[i + 1]) :
                       Eval(assertions.span[i + 1][k], a \cup model[1])
            /\ model' = <<a>> \o model
    /\ pc' = IF Len(model') = Len(live) THEN "done" ELSE "model"
    /\ UNCHANGED <<x0, y0, n0, f_init, f_final, transitions_optimised,
                   next_transitions, next_transitions_new, n, j, expanded, unique_i,
                   assertions, live, verdict>>

----------------------------------------------------------------------------
(* Specifications.                                                          *)

Blank ==
    /\ pc = "Gries"
    /\ f_init = <<>> /\ f_final = <<>>
    /\ transitions_optimised = <<>>
    /\ next_transitions = <<>> /\ next_transitions_new = <<>>
    /\ n = 0 /\ j = 0
    /\ expanded = <<>> /\ unique_i = 0
    /\ assertions = <<>> /\ live = <<>> /\ verdict = "none" /\ model = <<>>

(* Gries called with any arguments within the bounds *)
Init ==
    /\ x0 \in 0..MaxX
    /\ y0 \in 0..MaxY
    /\ n0 \in -1..MaxN
    /\ Blank

Next ==
    \/ Gries \/ GriesFails
    \/ WhileEnter \/ ForBody \/ ForEnd \/ WhileExit
    \/ UniqueValsStep \/ GriesReturn
    \/ SolveStep \/ SolveVerdict \/ ReadModel

Spec == Init /\ [][Next]_vars

(* main(): x = 10, y = 10, n = x+y-1; check() only *)
InitMain ==
    /\ x0 = MainX
    /\ y0 = MainY
    /\ n0 = x0 + y0 - 1
    /\ Blank

NextMain ==
    \/ Gries
    \/ WhileEnter \/ ForBody \/ ForEnd \/ WhileExit
    \/ UniqueValsStep \/ GriesReturn
    \/ SolveStep \/ SolveVerdict

SpecMain == InitMain /\ [][NextMain]_vars

----------------------------------------------------------------------------
(* The coffee-can game itself, as the statements about it describe it:      *)
(* from (x,y) one may move to (x+1,y-2) when y >= 2 and to (x-1,y) when     *)
(* x >= 2 or x >= 1 and y >= 1; the configurations in stay do not move.     *)

GameMoves(c, stay) ==
    (IF c[2] >= 2 THEN {<<c[1] + 1, c[2] - 2>>} ELSE {})
    \cup (IF c[1] >= 2 \/ (c[1] >= 1 /\ c[2] >= 1) THEN {<<c[1] - 1, c[2]>>} ELSE {})
    \cup (IF c \in stay THEN {c} ELSE {})

RECURSIVE GameAfter(_, _, _)
GameAfter(c, k, stay) ==
    IF k = 0 THEN {c}
    ELSE UNION {GameMoves(d, stay) : d \in GameAfter(c, k - 1, stay)}

Solved == verdict # "none"

(* the values a layer of a model makes true for one colour *)
ValsOf(a, colour) == {valOf(v) : v \in {w \in a : colourOf(w) = colour}}

(* the configurations reached in exactly k applications of the relation     *)
(* nextStep computes (its next points)                                      *)
RECURSIVE ReachedAfter(_)
ReachedAfter(k) ==
    IF k = 0 THEN {<<x0, y0>>}
    ELSE UNION {Range(nextStep(c[1], c[2], k - 1).points) : c \in ReachedAfter(k - 1)}

SweepDone == pc \in {"uniqueVals", "check", "model", "done"}

(* C1: if Gries(x,y,n) is satisfiable for positive x, y, the game has an    *)
(* execution of n steps from (x,y) to (0,1), where (1,0) and (0,1) stay put *)
C1_SatImpliesExecution ==
    (Solved /\ x0 >= 1 /\ y0 >= 1 /\ verdict = "sat")
        => <<0, 1>> \in GameAfter(<<x0, y0>>, n0, {<<1, 0>>, <<0, 1>>})

(* C2: if the game has an execution from positive (x,y) that is at (0,1) at *)
(* step n, with (0,1) staying put once reached, Gries(x,y,n) is satisfiable *)
C2_ExecutionImpliesSat ==
    (Solved /\ x0 >= 1 /\ y0 >= 1 /\ <<0, 1>> \in GameAfter(<<x0, y0>>, n0, {<<0, 1>>}))
        => verdict = "sat"

C2_Witness ==
    /\ pc = "done" /\ verdict = "sat"
    /\ x0 = 1 /\ y0 = 3 /\ n0 = 3
    /\ <<0, 1>> \in GameAfter(<<x0, y0>>, n0, {<<0, 1>>})

C4_OneBlackNeverWhite ==
    (Solved /\ x0 = 1 /\ y0 = 0) => verdict = "unsat"

(* C5: in every satisfying model of Gries(x,y,n), x, y positive, for every  *)
(* step in 0..n and each colour exactly one count variable is true          *)
C5_ExactlyOneValue ==
    (pc = "done" /\ verdict = "sat" /\ x0 >= 1 /\ y0 >= 1) =>
        \A i \in 0..n0 : \A colour \in {"black", "white"} :
            Cardinality({v \in model[i + 1] : colourOf(v) = colour}) = 1

(* C6: for every expanded configuration with x+y >= 1 at most one rule      *)
(* fires: the disjunction has one branch, the next list at most one element *)
C6_RulesExclusive ==
    /\ \A k \in 1..Len(expanded) :
          expanded[k][1] + expanded[k][2] >= 1
              => Len(transitions_optimised[k].args[2].args) = 1
    /\ Len(next_transitions_new) <= 1

(* C7: every configuration reachable from (x0,y0) in exactly k <= n0        *)
(* applications of nextStep's relation is expanded at step k                *)
C7_SweepKeepsReachable ==
    SweepDone =>
        \A k \in 0..n0 : \A c \in ReachedAfter(k) :
            <<c[1], c[2], k>> \in Range(expanded)

(* the formula whose transition conjunction holds nextStep(a,b,i) for every *)
(* configuration (a,b) in [0,x+y]^2 and every step i in [0,n]               *)
UnprunedFormula(x, y, nn) ==
    LET w == x + y + 1
        all == [k \in 1..(w * w * (nn + 1)) |->
                  nextStep(((k - 1) \div w) % w, (k - 1) % w, (k - 1) \div (w * w)).formula]
    IN And(<<init(x, y), final(0, 1, nn), And(all),
             uniqueVals(x, y, nn)>>)

(* C8: for positive x, y the pruned formula and the unpruned one have the   *)
(* same satisfying assignments, in particular the same verdict              *)
C8_PruningKeepsVerdict ==
    (Solved /\ model = <<>> /\ x0 >= 1 /\ y0 >= 1)
        => ((verdict = "sat") <=> Satisfiable(UnprunedFormula(x0, y0, n0)))

(* C9: every next configuration of an expanded (x,y) with x+y >= 1 has      *)
(* total x+y-1, the stay-put branch occurs only at total 1, and the total   *)
(* never increases from one step's expanded configurations to the next's    *)
C9_TotalNeverIncreases ==
    /\ \A k \in 1..Len(expanded) :
          LET x == expanded[k][1]
              y == expanded[k][2]
              r == nextStep(x, y, expanded[k][3])
              stays == \E b \in 1..Len(r.formula.args[2].args) :
                          r.formula.args[2].args[b] = r.formula.args[1]
          IN x + y >= 1 =>
                /\ \A p \in Range(r.points) : p[1] + p[2] = x + y - 1
                /\ stays => x + y = 1
                /\ r.formula = transitions_optimised[k]
    /\ \A k1, k2 \in 1..Len(expanded) :
          expanded[k2][3] = expanded[k1][3] + 1
              => expanded[k2][1] + expanded[k2][2] <= expanded[k1][1] + expanded[k1][2]
    /\ \A p \in Range(next_transitions_new) : p[1] + p[2] < x0 + y0

C9_Witness ==
    /\ x0 = 1 /\ y0 = 4 /\ n0 = 3
    /\ Len(expanded) >= 5
    /\ \E k \in 1..Len(expanded) : Len(nextStep(expanded[k][1], expanded[k][2], 0).points) = 2

NothingBuilt ==
    /\ f_init = <<>> /\ f_final = <<>>
    /\ transitions_optimised = <<>> /\ expanded = <<>>
    /\ next_transitions = <<>> /\ unique_i = 0

(* C10: Gries fails whenever x+y < 1 or n < 0, before any part of the        *)
(* formula is built, and raises no error for x+y >= 1 and n >= 0            *)
C10_ArgumentsChecked ==
    /\ (x0 + y0 < 1 \/ n0 < 0) => (pc \in {"Gries", "error"} /\ NothingBuilt)
    /\ (x0 + y0 >= 1 /\ n0 >= 0) => pc # "error"

C10_Witness ==
    /\ pc = "error" /\ NothingBuilt
    /\ x0 + y0 >= 1 /\ n0 < 0

----------------------------------------------------------------------------
(* The triples (colour, val, step) whose names are compared.                *)

MaxVal == 11
MaxStep == 11

Triples == {"black", "white"} \X (0..MaxVal) \X (0..MaxStep)

(* C11: bean is a function of its arguments, and distinct triples (colour,  *)
(* val, step) with non-negative val and step get distinct propositions:     *)
(* there are as many names as triples, a name read back gives its triple,   *)
(* and every variable of the formula built so far is the bean of the triple *)
(* its name reads as                                                        *)
C11_NamesInjective ==
    /\ Cardinality({bean(t[1], t[2], t[3]) : t \in Triples}) = Cardinality(Triples)
    /\ \A t \in Triples :
          LET name == bean(t[1], t[2], t[3]).args
          IN <<colourOf(name), valOf(name), stepOf(name)>> = t
    /\ \A k \in 1..Len(transitions_optimised) :
          \A v \in VarsOf(transitions_optimised[k]) :
              bean(colourOf(v), valOf(v), stepOf(v)) = Bool(v)

C11_Witness ==
    /\ pc = "check"
    /\ bean("black", 1, 0).args \in VarsOf(GriesFormula)
    /\ bean("black", 0, 1).args \in VarsOf(GriesFormula)
    /\ bean("black", 10, 0) # bean("black", 1, 0)
    /\ bean("white", 1, 10) # bean("white", 11, 0)

----------------------------------------------------------------------------
(* a layer of a model reads the configuration c: exactly the black count    *)
(* c[1] and the white count c[2] are true                                   *)
Reads(a, c) == ValsOf(a, "black") = {c[1]} /\ ValsOf(a, "white") = {c[2]}

(* C12: in every satisfying model of Gries(x,y,n), a step i < n that reads  *)
(* (1,0) or (0,1) is followed by a step i+1 that reads the same             *)
(* configuration                                                            *)
C12_TerminalsStay ==
    (pc = "done" /\ verdict = "sat") =>
        \A i \in 0..(n0 - 1) : \A c \in {<<1, 0>>, <<0, 1>>} :
            Reads(model[i + 1], c) => Reads(model[i + 2], c)

----------------------------------------------------------------------------
(* C13: for x, y >= 1 and n >= 0 every variable of Gries(x,y,n) has a step  *)
(* index in 0..n, the steps uniqueVals builds its constraints for           *)
C13_StepsWithinBound ==
    (pc = "check" /\ x0 >= 1 /\ y0 >= 1 /\ n0 >= 0) =>
        /\ \A v \in VarsOf(GriesFormula) : stepOf(v) \in 0..n0
        /\ VarsOf(And(transitions_optimised)) \subseteq VarsOf(uniqueVals(x0, y0, n0))

----------------------------------------------------------------------------
(* the number of nextStep calls made so far at step k *)
ExpandedAt(k) == Cardinality({i \in 1..Len(expanded) : expanded[i][3] = k})

(* C14: for x0, y0 >= 1 and n0 >= 0 every configuration (x,y) of the        *)
(* frontier has 0 <= x <= x0+y0 and 0 <= y <= x0+y0, the range check of the *)
(* for loop never skips one (every iteration made at step n is an           *)
(* expansion), and every variable of the formula has a value in 0..x0+y0    *)
C14_ValuesWithinDomain ==
    (x0 >= 1 /\ y0 >= 1 /\ n0 >= 0) =>
        /\ \A c \in Range(next_transitions) \cup Range(next_transitions_new) :
              /\ 0 <= c[1] /\ c[1] <= x0 + y0
              /\ 0 <= c[2] /\ c[2] <= x0 + y0
        /\ pc = "for" => ExpandedAt(n) = j - 1
        /\ pc = "check" => \A v \in VarsOf(GriesFormula) : valOf(v) \in 0..(x0 + y0)

C14_Witness ==
    /\ x0 >= 1 /\ y0 >= 1 /\ n0 >= 0
    /\ pc = "for" /\ n >= 1
    /\ Len(next_transitions) = 2 /\ j = 3
    /\ \E c \in Range(next_transitions) : c[2] = 0

----------------------------------------------------------------------------
(* C15: for x0+y0 >= 1 and every n0 no configuration the sweep expands or   *)
(* holds in its frontier is (0,0), and no implication it emits has an empty *)
(* disjunction                                                              *)
C15_NeverEmpty ==
    x0 + y0 >= 1 =>
        /\ \A k \in 1..Len(expanded) :
              /\ <<expanded[k][1], expanded[k][2]>> # <<0, 0>>
              /\ transitions_optimised[k].args[2].op = "Or"
              /\ Len(transitions_optimised[k].args[2].args) >= 1
        /\ <<0, 0>> \notin Range(next_transitions) \cup Range(next_transitions_new)

C15_Witness ==
    /\ x0 + y0 >= 2
    /\ \E k \in 1..Len(expanded) :
          /\ expanded[k][1] + expanded[k][2] = 1
          /\ expanded[k][3] >= 1
          /\ Len(transitions_optimised[k].args[2].args) = 1
    /\ pc = "while" /\ next_transitions = <<>>

----------------------------------------------------------------------------
(* C16: from every (x0,y0) with x0+y0 >= 1, a configuration reached in k    *)
(* moves of nextStep's rules 1 and 2 has total x0+y0-k; it has no further   *)
(* move exactly when its total is 1; so no sequence of moves is longer than *)
(* x0+y0-1, and every maximal one has exactly x0+y0-1 moves and ends in     *)
(* (1,0) or (0,1)                                                           *)
C16_DefaultBoundSufficient ==
    x0 + y0 >= 1 =>
        LET total == x0 + y0
        IN /\ \A k \in 0..(total - 1) : \A c \in ReachedAfter(k) :
                 /\ c[1] + c[2] = total - k
                 /\ (nextStep(c[1], c[2], k).points = <<>>) <=> (c[1] + c[2] = 1)
           /\ ReachedAfter(total - 1) # {}
           /\ ReachedAfter(total - 1) \subseteq {<<1, 0>>, <<0, 1>>}
           /\ ReachedAfter(total) = {}

C16_Witness ==
    /\ x0 = 1 /\ y0 = 3 /\ n0 = x0 + y0 - 1
    /\ pc = "done"
    /\ ReachedAfter(n0) = {<<0, 1>>}
    /\ \E k \in 1..Len(expanded) : expanded[k] = <<0, 1, n0>>

----------------------------------------------------------------------------
(* C17: every configuration expanded at a step k >= 1 is a next point that  *)
(* nextStep returned for a configuration expanded at step k-1; so it is     *)
(* reached from (x0,y0) in exactly k rule applications and has total        *)
(* x0+y0-k                                                                  *)
C17_ExpandsOnlySuccessors ==
    \A k \in 1..Len(expanded) :
        LET c == <<expanded[k][1], expanded[k][2]>>
            step == expanded[k][3]
        IN /\ step >= 1 =>
                \E m \in 1..Len(expanded) :
                    /\ expanded[m][3] = step - 1
                    /\ c \in Range(nextStep(expanded[m][1], expanded[m][2], step - 1).points)
           /\ c \in ReachedAfter(step)
           /\ c[1] + c[2] = x0 + y0 - step

C17_Witness ==
    /\ pc = "done"
    /\ \E k \in 1..Len(expanded) : expanded[k][3] = 3
    /\ ExpandedAt(1) = 2

----------------------------------------------------------------------------
(* allTransitions runs on its own: whenever a step of its loops is         *)
(* possible, one is taken.                                                  *)
SweepStep == WhileEnter \/ ForBody \/ ForEnd \/ WhileExit

SpecFair == Spec /\ WF_vars(SweepStep)

SweepArgs == x0 >= 1 /\ y0 >= 1 /\ n0 >= 0

(* the loop of allTransitions makes at most n0+1 iterations (n counts them) *)
(* and is left with the counter above n0 or with an empty frontier; with    *)
(* n0 = x0+y0-1 the frontier is empty once step n0 has been expanded        *)
SweepBounded ==
    SweepArgs =>
        /\ n <= n0 + 1
        /\ pc = "for" => n <= n0
        /\ SweepDone => (n > n0 \/ next_transitions = <<>>)
        /\ (SweepDone /\ n0 = x0 + y0 - 1) => (n = n0 + 1 /\ next_transitions = <<>>)

(* C18: for x0, y0 >= 1 and n0 >= 0 the sweep terminates: its loop is       *)
(* bounded as above, and once entered it is always left                     *)
C18_SweepTerminates ==
    /\ []SweepBounded
    /\ (SweepArgs /\ pc = "while") ~> SweepDone

C18_Witness ==
    /\ x0 = 1 /\ y0 = 3 /\ n0 = x0 + y0 - 1
    /\ pc = "uniqueVals"
    /\ n = n0 + 1 /\ next_transitions = <<>>
    /\ ExpandedAt(n0) = 1

----------------------------------------------------------------------------
(* the white values an emitted implication offers for the next step *)
WhiteNext(f) == {valOf(v) : v \in {w \in VarsOf(f.args[2]) : colourOf(w) = "white"}}

(* C19: every next configuration nextStep returns for (x,y) has a white     *)
(* count of the parity of y, in its next points and in its formula; so      *)
(* every configuration reachable from (x0,y0), and every one the sweep      *)
(* expands, has a white count of the parity of y0, and (0,1) is reachable   *)
(* only when y0 is odd                                                      *)
C19_WhiteParity ==
    /\ \A k \in 0..(x0 + y0) : \A c \in ReachedAfter(k) :
          /\ c[2] % 2 = y0 % 2
          /\ \A p \in Range(nextStep(c[1], c[2], k).points) : p[2] % 2 = c[2] % 2
          /\ c = <<0, 1>> => y0 % 2 = 1
    /\ \A k \in 1..Len(expanded) :
          /\ expanded[k][2] % 2 = y0 % 2
          /\ \A w \in WhiteNext(transitions_optimised[k]) : w % 2 = expanded[k][2] % 2
    /\ \A c \in Range(next_transitions) \cup Range(next_transitions_new) :
          c[2] % 2 = y0 % 2

C19_Witness ==
    /\ pc = "done" /\ x0 = 1 /\ y0 = 3
    /\ <<0, 1>> \in ReachedAfter(3)
    /\ \E k \in 1..Len(expanded) : WhiteNext(transitions_optimised[k]) = {1, 3}

====
